---- MODULE Spec2Model ----
(***************************************************************************)
(* PLCrashFrameWalker_x86_64.c: the x86-64 frame walker of PLCrashReporter.*)
(* The cursor (plframe_cursor_t), the libunwind handle it drives, the      *)
(* thread-state snapshot it was built from, the stack memory the scanner   *)
(* reads and the image list the address validator consults.                *)
(*                                                                         *)
(* Addresses are unsigned machine words.  The 64-bit width of the source   *)
(* is scaled to AddrBits bits: every address computation of the source is  *)
(* taken modulo 2^AddrBits, and the "upper 32 bits" of an address are its  *)
(* upper AddrBits/2 bits.  The scanner's window of 500 words is scaled to  *)
(* search_space words; the loop over it is the source's, bound included.   *)
(***************************************************************************)
EXTENDS Integers, Sequences, FiniteSets, TLC

VARIABLES
    variant,      \* which plframe_cursor_next was compiled in: "scan" | "libunwind"
    inited,       \* plframe_cursor_init has run on the cursor
    cursor,       \* plframe_cursor_t: nframe, endstack, last_unwind_address,
                  \*   last_stack_pointer, last_valid_frame
    unwcrsr,      \* cursor->unwcrsr, the libunwind cursor: its IP and the context it was seeded from
    ss,           \* cursor->uap->uc_mcontext->__ss, the general-purpose thread state
    thread,       \* the registers of the thread being walked
    image_list,   \* cursor->image_list: sequence of [header, textsize]
    mem,          \* the memory plframe_read_addr reads: mapped range and its contents
    last,         \* what the most recent call did and returned
    reading,      \* the image list's count of readers (plcrash_async_image_list_set_reading)
    session,      \* the unwinding sessions inside plframe_cursor_address_looks_valid:
                  \*   where each one is and what it has done in its current call
    unw_more,     \* how many further frames libunwind will report, as it is seeded
                  \*   now, before its step answers with the end or an error
    twin,         \* a cursor of the older libunwind-only variant walked alongside
                  \*   `cursor`: the cursor, its libunwind handle, its last outcome
    fpcursor      \* the cursor of the manual frame-pointer variant: nframe, fp[0], fp[1]

vars == <<variant, inited, cursor, unwcrsr, ss, thread, image_list, mem, last,
          reading, session, unw_more, twin, fpcursor>>

\* the state of the walks that the other variants make
other_walks == <<unw_more, twin, fpcursor>>

(***************************************************************************)
(* Bounds of the model.                                                    *)
(***************************************************************************)
AddrBits == 16          \* width of uintptr_t / plframe_greg_t in the model (64 in the source)
search_space == 3       \* words the scanner looks through before giving up (500 in the source)
MaxFrames == 3          \* advance is not called once nframe has reached this
MaxHits == 2            \* at most this many non-zero words on the stack
NumSessions == 2        \* unwinding sessions that share the image list
MaxMore == 2            \* frames libunwind reports after a seeding before it ends or fails

AddrSpace == 2 ^ AddrBits
LowSpace == 2 ^ (AddrBits \div 2)   \* addresses below it have zero upper bits
Wrap(x) == x % AddrSpace

WordSize == 8           \* sizeof(plframe_greg_t)

(***************************************************************************)
(* Result codes.                                                           *)
(***************************************************************************)
PLFRAME_ESUCCESS == [kind |-> "PLFRAME_ESUCCESS", code |-> 0]
PLFRAME_ENOFRAME == [kind |-> "PLFRAME_ENOFRAME", code |-> 0]
PLFRAME_EBADFRAME == [kind |-> "PLFRAME_EBADFRAME", code |-> 0]
PLFRAME_ENOTSUP == [kind |-> "PLFRAME_ENOTSUP", code |-> 0]
PLFRAME_INTERNAL == [kind |-> "PLFRAME_INTERNAL", code |-> 0]
NoReturn == [kind |-> "none", code |-> 0]

UNW_ESUCCESS == 0
UNW_STEP_END == 0
UNW_STEP_SUCCESS == 1
UnwErrors == {-6540}            \* UNW_EUNSPEC
UnwStepResults == {UNW_STEP_SUCCESS, UNW_STEP_END} \cup UnwErrors
UnwInitResults == {UNW_ESUCCESS, -6540}

\* plframe_error_from_unwerror: success stays success, any other provider
\* code is passed through wrapped as a provider error.
plframe_error_from_unwerror(e) ==
    IF e = UNW_ESUCCESS THEN PLFRAME_ESUCCESS
    ELSE [kind |-> "ProviderError", code |-> e]

(***************************************************************************)
(* Registers.                                                              *)
(***************************************************************************)
UnwMappedRegs == {"RAX", "RBX", "RCX", "RDX", "RDI", "RSI", "RBP", "RSP",
                  "R10", "R11", "R12", "R13", "R14", "R15"}
SnapshotOnlyRegs == {"RFLAGS", "CS", "FS", "GS"}
\* x86_thread_state64_t
ThreadStateRegs == UnwMappedRegs \cup SnapshotOnlyRegs \cup {"R8", "R9", "RIP"}
\* the ids a caller may pass: the thread-state registers and one id outside them
RegIds == ThreadStateRegs \cup {"OTHER"}
\* the ids the caller passes in the model: one for each path through
\* plframe_get_reg (the program counter, a register read through libunwind,
\* one read from the snapshot, a thread-state register the switch does not
\* list, an id outside the enumeration)
CalledRegIds == {"RIP", "RSP", "RFLAGS", "R8", "OTHER"}

(***************************************************************************)
(* The environment: images, program counters, stack contents.              *)
(***************************************************************************)
Image1 == [header |-> 8192, textsize |-> 256]
Image2 == [header |-> 16384, textsize |-> 64]
ImageLists == {<<Image1>>, <<Image2, Image1>>}

\* an image whose range covers every address, the lowest ones included
Image0 == [header |-> 0, textsize |-> AddrSpace - 1]
\* the lists the validator is called with on its own: none, the above, and
\* lists in which two images hold the same address
ValidatorImageLists == ImageLists \cup {<<>>, <<Image0>>, <<Image1, Image0>>}
\* the addresses it is called with: with zero upper bits (0, 100), beside and
\* on both ends of Image1's range, inside Image2
ValidatorAddresses == {0, 100, 8191, 8192, 8448, 8449, 16400}

Sessions == 1 .. NumSessions

\* program counters the unwind provider may report
PCs == {8200, 16400}

\* non-zero words found on the stack: one inside Image1 and one inside Image2,
\* which is inside no image when Image2 is not loaded
StackWords == {8200, 16400}

\* stack pointers of the snapshot: an ordinary one, one for which the scan
\* bound is the last word of the address space, one for which it wraps
StackBase == 32768
StackPointers == {StackBase,
                  AddrSpace - (search_space * WordSize) - WordSize,
                  AddrSpace - (2 * WordSize)}

\* word indices (from StackBase) that may hold a non-zero word
HitIdx == 0 .. (search_space + 1)
\* number of readable words from StackBase
MappedWords == {0, 2, search_space + 2}

\* the stack contents: at most MaxHits words of StackWords at HitIdx, zero elsewhere
Contents ==
    UNION {[S -> StackWords] : S \in {T \in SUBSET HitIdx : Cardinality(T) <= MaxHits}}

\* the memory images the walked task may have: mapped from StackBase for
\* `words` words, which hold `content`; nothing else is mapped, in particular
\* neither the first nor the last page of the address space
Memories ==
    {m \in [words : MappedWords, content : Contents] :
        \A k \in DOMAIN m.content : k < m.words}

\* plframe_read_addr(loc, &data, sizeof(data)): KERN_SUCCESS and the word when
\* the whole word is mapped, a failure otherwise
plframe_read_addr(m, loc) ==
    IF /\ loc >= StackBase
       /\ loc + WordSize <= StackBase + m.words * WordSize
       /\ (loc - StackBase) % WordSize = 0
    THEN LET k == (loc - StackBase) \div WordSize
         IN [ok |-> TRUE, data |-> IF k \in DOMAIN m.content THEN m.content[k] ELSE 0]
    ELSE [ok |-> FALSE, data |-> 0]

(***************************************************************************)
(* plframe_cursor_address_looks_valid                                      *)
(***************************************************************************)
\* address_in_low_4GB finding no address in the bottom of the address space
address_in_low_4GB_never(address) == FALSE

\* (address & 0xFFFFFFFF00000000) == 0
address_in_low_4GB(address) == address \div LowSpace = 0

\* in_image with the end of the text range left out
in_image_exclusive(entry, address) ==
    /\ address >= entry.header
    /\ address < Wrap(entry.header + entry.textsize)

\* the test of one image: the address is within its VM range
in_image(entry, address) ==
    /\ address >= entry.header
    /\ address <= Wrap(entry.header + entry.textsize)

\* the while loop over plcrash_async_image_list_next: entry i of the list is
\* examined, `nexts` counts the calls of plcrash_async_image_list_next
RECURSIVE image_list_walk(_, _, _)
image_list_walk(il, address, i) ==
    IF i > Len(il) THEN [valid |-> FALSE, nexts |-> i]
    ELSE IF in_image(il[i], address)
         THEN [valid |-> TRUE, nexts |-> i]
         ELSE image_list_walk(il, address, i + 1)

\* result, the set_reading calls made, and the number of list entries asked for
plframe_cursor_address_looks_valid(il, address) ==
    IF address_in_low_4GB(address)
    THEN [valid |-> FALSE, nexts |-> 0, marker |-> <<>>]
    ELSE LET w == image_list_walk(il, address, 1)
         IN [valid |-> w.valid, nexts |-> w.nexts, marker |-> <<TRUE, FALSE>>]

(***************************************************************************)
(* plframe_cursor_address_looks_valid, statement by statement: what one    *)
(* unwinding session does to the image list it shares with the others.     *)
(* A session is [pc, address, entry, acquired, released, nexts, done,      *)
(* valid]: where it is in the function, the address it was called with,    *)
(* the entry plcrash_async_image_list_next last gave it (0 for NULL), the   *)
(* set_reading(true), set_reading(false) and next calls it has made in the *)
(* current call, whether the call has returned and what it returned.       *)
(***************************************************************************)
\* plcrash_async_image_list_set_reading: the list counts its readers
set_reading(rd, enable) == IF enable THEN rd + 1 ELSE rd - 1

\* plcrash_async_image_list_next(list, entry): the entry after `entry`, the
\* first one for NULL, NULL after the last
image_list_next(il, entry) == IF entry < Len(il) THEN entry + 1 ELSE 0

IdleSession ==
    [pc |-> "idle", address |-> 0, entry |-> 0, acquired |-> 0, released |-> 0,
     nexts |-> 0, done |-> FALSE, valid |-> FALSE]

\* entry of the function up to the loop: the fast path returns at once,
\* otherwise the session marks the list as being read
looks_valid_enter(rd, address) ==
    IF address_in_low_4GB(address)
    THEN [reading |-> rd,
          session |-> [IdleSession EXCEPT !.address = address, !.done = TRUE]]
    ELSE [reading |-> set_reading(rd, TRUE),
          session |-> [IdleSession EXCEPT !.pc = "loop", !.address = address,
                                          !.acquired = 1]]

\* one evaluation of the while condition and, for an entry, of the if in the body
looks_valid_iterate(il, ses) ==
    LET e == image_list_next(il, ses.entry)
        s1 == [ses EXCEPT !.entry = e, !.nexts = ses.nexts + 1]
    IN IF e = 0 THEN [s1 EXCEPT !.pc = "exhausted"]
       ELSE IF in_image(il[e], ses.address) THEN [s1 EXCEPT !.pc = "found"]
       ELSE s1

\* looks_valid_leave keeping the marker when an image was found
looks_valid_leave_found_keeps_marker(rd, ses) ==
    IF ses.pc = "found"
    THEN [reading |-> rd,
          session |-> [ses EXCEPT !.pc = "idle", !.done = TRUE, !.valid = TRUE]]
    ELSE [reading |-> set_reading(rd, FALSE),
          session |-> [ses EXCEPT !.pc = "idle", !.released = ses.released + 1,
                                  !.done = TRUE, !.valid = FALSE]]

\* the two ways out of the loop: set_reading(false), then return
looks_valid_leave(rd, ses) ==
    [reading |-> set_reading(rd, FALSE),
     session |-> [ses EXCEPT !.pc = "idle", !.released = ses.released + 1,
                             !.done = TRUE, !.valid = (ses.pc = "found")]]

(***************************************************************************)
(* plframe_cursor_scan_stack                                               *)
(***************************************************************************)
\* scan_loop going on to the next word when a read fails
RECURSIVE scan_loop_skip_unreadable(_, _, _, _, _)
scan_loop_skip_unreadable(c, m, il, loc, n) ==
    IF ~(loc <= Wrap(c.last_stack_pointer + search_space * WordSize))
    THEN [ret |-> PLFRAME_ENOFRAME, cursor |-> c, reads |-> n]
    ELSE LET r == plframe_read_addr(m, loc)
         IN IF r.ok /\ plframe_cursor_address_looks_valid(il, r.data).valid
            THEN [ret |-> PLFRAME_ESUCCESS,
                  cursor |-> [c EXCEPT !.last_stack_pointer = Wrap(loc + WordSize),
                                       !.last_valid_frame = r.data],
                  reads |-> n + 1]
            ELSE scan_loop_skip_unreadable(c, m, il, Wrap(loc + WordSize), n + 1)

\* the for loop, entered with loop variable loc after n reads
RECURSIVE scan_loop(_, _, _, _, _)
scan_loop(c, m, il, loc, n) ==
    IF ~(loc <= Wrap(c.last_stack_pointer + search_space * WordSize))
    THEN [ret |-> PLFRAME_ENOFRAME, cursor |-> c, reads |-> n]
    ELSE LET r == plframe_read_addr(m, loc)
         IN IF ~r.ok
            THEN [ret |-> PLFRAME_ENOFRAME, cursor |-> c, reads |-> n + 1]
            ELSE IF plframe_cursor_address_looks_valid(il, r.data).valid
                 THEN [ret |-> PLFRAME_ESUCCESS,
                       cursor |-> [c EXCEPT !.last_stack_pointer = Wrap(loc + WordSize),
                                            !.last_valid_frame = r.data],
                       reads |-> n + 1]
                 ELSE scan_loop(c, m, il, Wrap(loc + WordSize), n + 1)

\* plframe_cursor_scan_stack starting one word above the watermark
plframe_cursor_scan_stack_skip_first(c, m, il) ==
    scan_loop(c, m, il, Wrap(c.last_stack_pointer + WordSize), 0)

\* plframe_cursor_scan_stack recording the hit without moving the watermark
plframe_cursor_scan_stack_keeps_watermark(c, m, il) ==
    LET r == scan_loop(c, m, il, c.last_stack_pointer, 0)
    IN [r EXCEPT !.cursor.last_stack_pointer = c.last_stack_pointer]

plframe_cursor_scan_stack(c, m, il) ==
    scan_loop(c, m, il, c.last_stack_pointer, 0)

(***************************************************************************)
(* The unwind provider (libunwind).                                        *)
(***************************************************************************)
\* unw_init_local: the cursor is seeded with a copy of the context
unw_init_local(context) == [ip |-> context["RIP"], ctx |-> context]

\* unw_get_reg(&unwcrsr, UNW_REG_IP, &v)
unw_get_ip(u) == u.ip

\* unw_get_reg(&unwcrsr, UNW_X86_64_<r>, &v)
unw_get_reg(u, r) == [result |-> UNW_ESUCCESS, val |-> u.ctx[r]]

\* unw_step: the provider moves to a program counter of its choosing
unw_step(u, newip) == [u EXCEPT !.ip = newip]

(***************************************************************************)
(* plframe_cursor_init                                                     *)
(***************************************************************************)
\* the cursor as plframe_cursor_init leaves it
init_cursor(uap) ==
    [nframe |-> -1,
     endstack |-> FALSE,
     last_unwind_address |-> 0,
     last_stack_pointer |-> uap["RSP"],
     last_valid_frame |-> uap["RIP"]]

\* the older variant's plframe_cursor_init sets nframe only
init_cursor_libunwind(c) == [c EXCEPT !.nframe = -1]

(***************************************************************************)
(* plframe_cursor_next                                                     *)
(***************************************************************************)
\* the scanner was not called
NoScan == [ret |-> NoReturn, reads |-> 0, in |-> <<>>, out |-> <<>>]

\* what one call reports besides the new cursor and provider state: its
\* return value, whether unw_step ran and what it returned, the provider's
\* program counter before and after the step, and the scanner's call
Outcome(c, u, ret, stepped, unwr, before, after, scan) ==
    [cursor |-> c, unwcrsr |-> u, ret |-> ret, stepped |-> stepped,
     unwr |-> unwr, pc_before |-> before, pc_after |-> after, scan |-> scan,
     initres |-> UNW_ESUCCESS]

\* next_duplicate counting the frame found by the scan a second time
next_duplicate_double_count(c1, u1, s, m, il, unwr, initres) ==
    LET sc == plframe_cursor_scan_stack(c1, m, il)
        scan == [ret |-> sc.ret, reads |-> sc.reads, in |-> c1, out |-> sc.cursor]
        before == c1.last_unwind_address
        reg == unw_get_ip(u1)
    IN IF sc.ret = PLFRAME_ENOFRAME
       THEN Outcome([sc.cursor EXCEPT !.endstack = TRUE,
                                      !.last_valid_frame = unw_get_ip(u1)],
                    u1, PLFRAME_ESUCCESS, TRUE, unwr, before, reg, scan)
       ELSE Outcome([sc.cursor EXCEPT !.nframe = sc.cursor.nframe + 1],
                    unw_init_local([s EXCEPT !["RIP"] = sc.cursor.last_valid_frame]),
                    plframe_error_from_unwerror(initres),
                    TRUE, unwr, before, reg, scan)

\* next_duplicate reseeding libunwind with the scanner's stack pointer as well
next_duplicate_reseed_stack_pointer(c1, u1, s, m, il, unwr, initres) ==
    LET sc == plframe_cursor_scan_stack(c1, m, il)
        scan == [ret |-> sc.ret, reads |-> sc.reads, in |-> c1, out |-> sc.cursor]
        before == c1.last_unwind_address
        reg == unw_get_ip(u1)
    IN IF sc.ret = PLFRAME_ENOFRAME
       THEN Outcome([sc.cursor EXCEPT !.endstack = TRUE,
                                      !.last_valid_frame = unw_get_ip(u1)],
                    u1, PLFRAME_ESUCCESS, TRUE, unwr, before, reg, scan)
       ELSE LET state == [s EXCEPT !["RIP"] = sc.cursor.last_valid_frame,
                                   !["RSP"] = sc.cursor.last_stack_pointer]
            IN [Outcome(sc.cursor, unw_init_local(state),
                        plframe_error_from_unwerror(initres),
                        TRUE, unwr, before, reg, scan)
                   EXCEPT !.initres = initres]

\* the duplicate branch: scan the stack, then end the walk or reseed libunwind
next_duplicate(c1, u1, s, m, il, unwr, initres) ==
    LET sc == plframe_cursor_scan_stack(c1, m, il)
        scan == [ret |-> sc.ret, reads |-> sc.reads, in |-> c1, out |-> sc.cursor]
        before == c1.last_unwind_address
        reg == unw_get_ip(u1)
    IN IF sc.ret = PLFRAME_ENOFRAME
       THEN LET c2 == [sc.cursor EXCEPT !.endstack = TRUE,
                                        !.last_valid_frame = unw_get_ip(u1)]
            IN Outcome(c2, u1, PLFRAME_ESUCCESS, TRUE, unwr, before, reg, scan)
       ELSE IF sc.ret # PLFRAME_ESUCCESS
       THEN Outcome(sc.cursor, u1, sc.ret, TRUE, unwr, before, reg, scan)
       ELSE LET state == [s EXCEPT !["RIP"] = sc.cursor.last_valid_frame]
            IN [Outcome(sc.cursor, unw_init_local(state),
                        plframe_error_from_unwerror(initres),
                        TRUE, unwr, before, reg, scan)
                   EXCEPT !.initres = initres]

\* next_error treating a failed step as the end of the stack
next_error_ends_stack(c1, u1, unwr, before) ==
    Outcome([c1 EXCEPT !.endstack = TRUE], u1, plframe_error_from_unwerror(unwr),
            TRUE, unwr, before, unw_get_ip(u1), NoScan)

\* unw_step failed: the translated error is returned
next_error(c1, u1, unwr, before) ==
    Outcome(c1, u1, plframe_error_from_unwerror(unwr), TRUE, unwr,
            before, unw_get_ip(u1), NoScan)

\* next_end forgetting to raise the end-of-stack flag
next_end_keeps_walking(c1, u1, unwr, before) ==
    Outcome([c1 EXCEPT !.last_valid_frame = unw_get_ip(u1)],
            u1, PLFRAME_ESUCCESS, TRUE, unwr, before, unw_get_ip(u1), NoScan)

\* libunwind ended the stack on a new address: this is the last frame
next_end(c1, u1, unwr, before) ==
    Outcome([c1 EXCEPT !.endstack = TRUE, !.last_valid_frame = unw_get_ip(u1)],
            u1, PLFRAME_ESUCCESS, TRUE, unwr, before, unw_get_ip(u1), NoScan)

\* next_more leaving last_valid_frame at the frame before
next_more_keeps_frame(c1, u1, unwr, before) ==
    Outcome(c1, u1, PLFRAME_ESUCCESS, TRUE, unwr, before, unw_get_ip(u1), NoScan)

\* libunwind stepped to a further frame
next_more(c1, u1, unwr, before) ==
    Outcome([c1 EXCEPT !.last_valid_frame = unw_get_ip(u1)],
            u1, PLFRAME_ESUCCESS, TRUE, unwr, before, unw_get_ip(u1), NoScan)

\* is_duplicate taking every end of stack for a duplicate
is_duplicate_any_end(c1, reg) == TRUE

\* the duplicated-frame test
is_duplicate(c1, reg) == c1.last_unwind_address = reg

\* stepped_cursor moving the watermark on by a word with every step
stepped_cursor_moves_watermark(c, before) ==
    [c EXCEPT !.last_unwind_address = before, !.nframe = c.nframe + 1,
              !.last_stack_pointer = Wrap(c.last_stack_pointer + WordSize)]

\* the cursor once the step has been taken and counted
stepped_cursor(c, before) ==
    [c EXCEPT !.last_unwind_address = before, !.nframe = c.nframe + 1]

\* the branch taken when libunwind has not signalled the end yet
next_step(c, u, s, m, il, unwr, newip, initres) ==
    LET before == unw_get_ip(u)
        u1 == unw_step(u, newip)
        c1 == stepped_cursor(c, before)
        reg == unw_get_ip(u1)
    IN IF unwr < 0
       THEN next_error(c1, u1, unwr, before)
       ELSE IF unwr = UNW_STEP_END
       THEN IF is_duplicate(c1, reg)
            THEN next_duplicate(c1, u1, s, m, il, unwr, initres)
            ELSE next_end(c1, u1, unwr, before)
       ELSE next_more(c1, u1, unwr, before)

\* a call that does not reach unw_step
Unstepped(c, u, ret) ==
    Outcome(c, u, ret, FALSE, UNW_STEP_SUCCESS, u.ip, u.ip, NoScan)

\* the first call: frame 0 is the snapshot itself
next_first(c, u) ==
    Unstepped([c EXCEPT !.nframe = c.nframe + 1], u, PLFRAME_ESUCCESS)

\* plframe_cursor_next without the end-of-stack test
plframe_cursor_next_ignores_endstack(c, u, s, m, il, unwr, newip, initres) ==
    IF c.nframe = -1
    THEN next_first(c, u)
    ELSE next_step(c, u, s, m, il, unwr, newip, initres)

\* plframe_cursor_next stepping libunwind on the first call too
plframe_cursor_next_steps_first(c, u, s, m, il, unwr, newip, initres) ==
    IF c.endstack
    THEN Unstepped(c, u, PLFRAME_ENOFRAME)
    ELSE next_step(c, u, s, m, il, unwr, newip, initres)

plframe_cursor_next(c, u, s, m, il, unwr, newip, initres) ==
    IF c.nframe = -1
    THEN next_first(c, u)
    ELSE IF c.endstack
    THEN Unstepped(c, u, PLFRAME_ENOFRAME)
    ELSE next_step(c, u, s, m, il, unwr, newip, initres)

\* plframe_cursor_next_libunwind reporting the end with the call that sees it
plframe_cursor_next_libunwind_ends_on_done(c, u, unwr, newip) ==
    IF c.nframe = -1
    THEN next_first(c, u)
    ELSE IF c.nframe = -2
    THEN Unstepped(c, u, PLFRAME_ENOFRAME)
    ELSE LET u1 == unw_step(u, newip)
             c1 == [c EXCEPT !.nframe = c.nframe + 1]
         IN IF unwr = 0
            THEN Outcome([c1 EXCEPT !.nframe = -2], u1, PLFRAME_ENOFRAME,
                         TRUE, unwr, u.ip, u1.ip, NoScan)
            ELSE IF unwr < 0
            THEN Outcome(c1, u1, plframe_error_from_unwerror(unwr),
                         TRUE, unwr, u.ip, u1.ip, NoScan)
            ELSE Outcome(c1, u1, PLFRAME_ESUCCESS, TRUE, unwr, u.ip, u1.ip, NoScan)

\* the older variant, which relies on libunwind alone
plframe_cursor_next_libunwind(c, u, unwr, newip) ==
    IF c.nframe = -1
    THEN next_first(c, u)
    ELSE IF c.nframe = -2
    THEN Unstepped(c, u, PLFRAME_ENOFRAME)
    ELSE LET u1 == unw_step(u, newip)
             c1 == [c EXCEPT !.nframe = c.nframe + 1]
         IN IF unwr = 0
            THEN Outcome([c1 EXCEPT !.nframe = -2], u1, PLFRAME_ESUCCESS,
                         TRUE, unwr, u.ip, u1.ip, NoScan)
            ELSE IF unwr < 0
            THEN Outcome(c1, u1, plframe_error_from_unwerror(unwr),
                         TRUE, unwr, u.ip, u1.ip, NoScan)
            ELSE Outcome(c1, u1, PLFRAME_ESUCCESS, TRUE, unwr, u.ip, u1.ip, NoScan)

(***************************************************************************)
(* plframe_get_reg, plframe_get_freg                                       *)
(***************************************************************************)
\* plframe_get_reg without the test of the frame index
plframe_get_reg_any_frame(c, u, s, regnum) ==
    IF regnum \in SnapshotOnlyRegs
    THEN [ret |-> PLFRAME_ESUCCESS, set |-> TRUE, val |-> s[regnum]]
    ELSE IF regnum \in UnwMappedRegs
    THEN [ret |-> PLFRAME_ESUCCESS, set |-> TRUE, val |-> unw_get_reg(u, regnum).val]
    ELSE IF regnum = "RIP"
    THEN [ret |-> PLFRAME_ESUCCESS, set |-> TRUE, val |-> unw_get_ip(u)]
    ELSE [ret |-> PLFRAME_ENOTSUP, set |-> FALSE, val |-> 0]

\* `set` tells whether *reg was written
plframe_get_reg(c, u, s, regnum) ==
    IF c.nframe # 0
    THEN IF regnum = "RIP"
         THEN [ret |-> PLFRAME_ESUCCESS, set |-> TRUE, val |-> c.last_valid_frame]
         ELSE [ret |-> PLFRAME_ENOTSUP, set |-> FALSE, val |-> 0]
    ELSE IF regnum \in SnapshotOnlyRegs
    THEN [ret |-> PLFRAME_ESUCCESS, set |-> TRUE, val |-> s[regnum]]
    ELSE IF regnum \in UnwMappedRegs \cup {"RIP"}
    THEN LET g == IF regnum = "RIP"
                  THEN [result |-> UNW_ESUCCESS, val |-> unw_get_ip(u)]
                  ELSE unw_get_reg(u, regnum)
         IN IF g.result = UNW_ESUCCESS
            THEN [ret |-> PLFRAME_ESUCCESS, set |-> TRUE, val |-> g.val]
            ELSE [ret |-> plframe_error_from_unwerror(g.result), set |-> FALSE, val |-> 0]
    ELSE [ret |-> PLFRAME_ENOTSUP, set |-> FALSE, val |-> 0]

\* plframe_get_freg handing out a zeroed register
plframe_get_freg_zeroed(c, regnum) ==
    [ret |-> PLFRAME_ESUCCESS, set |-> TRUE, val |-> 0]

plframe_get_freg(c, regnum) ==
    [ret |-> PLFRAME_ENOTSUP, set |-> FALSE, val |-> 0]

(***************************************************************************)
(* plframe_get_regname                                                     *)
(***************************************************************************)
\* plframe_get_regname answering an id it does not know with a placeholder
plframe_get_regname_placeholder(regnum) ==
    [abort |-> FALSE, name |-> "unknown"]

\* the name returned, or the abort() after the switch
plframe_get_regname(regnum) ==
    CASE regnum = "RAX" -> [abort |-> FALSE, name |-> "rax"]
      [] regnum = "RBX" -> [abort |-> FALSE, name |-> "rbx"]
      [] regnum = "RCX" -> [abort |-> FALSE, name |-> "rcx"]
      [] regnum = "RDX" -> [abort |-> FALSE, name |-> "rdx"]
      [] regnum = "RDI" -> [abort |-> FALSE, name |-> "rdi"]
      [] regnum = "RSI" -> [abort |-> FALSE, name |-> "rsi"]
      [] regnum = "RBP" -> [abort |-> FALSE, name |-> "rbp"]
      [] regnum = "RSP" -> [abort |-> FALSE, name |-> "rsp"]
      [] regnum = "R10" -> [abort |-> FALSE, name |-> "r10"]
      [] regnum = "R11" -> [abort |-> FALSE, name |-> "r11"]
      [] regnum = "R12" -> [abort |-> FALSE, name |-> "r12"]
      [] regnum = "R13" -> [abort |-> FALSE, name |-> "r13"]
      [] regnum = "R14" -> [abort |-> FALSE, name |-> "r14"]
      [] regnum = "R15" -> [abort |-> FALSE, name |-> "r15"]
      [] regnum = "RIP" -> [abort |-> FALSE, name |-> "rip"]
      [] regnum = "RFLAGS" -> [abort |-> FALSE, name |-> "rflags"]
      [] regnum = "CS" -> [abort |-> FALSE, name |-> "cs"]
      [] regnum = "FS" -> [abort |-> FALSE, name |-> "fs"]
      [] regnum = "GS" -> [abort |-> FALSE, name |-> "gs"]
      [] OTHER -> [abort |-> TRUE, name |-> ""]

(***************************************************************************)
(* State machine.                                                          *)
(***************************************************************************)
RegOrder == <<"RAX", "RBX", "RCX", "RDX", "RDI", "RSI", "RBP", "RSP", "R8", "R9",
              "R10", "R11", "R12", "R13", "R14", "R15", "RIP", "RFLAGS", "CS",
              "FS", "GS">>
RegIndex(r) == CHOOSE i \in 1..Len(RegOrder) : RegOrder[i] = r

\* thread states: every register holds its own value; the program counter
\* and the stack pointer range over PCs and StackPointers
ThreadStates ==
    {[r \in ThreadStateRegs |->
        IF r = "RIP" THEN pc ELSE IF r = "RSP" THEN sp ELSE 40000 + RegIndex(r)] :
     pc \in {8200}, sp \in StackPointers}

\* a cursor that plframe_cursor_init has not touched holds whatever its
\* storage held
Indeterminate ==
    {[nframe |-> 0, endstack |-> TRUE, last_unwind_address |-> 8200,
      last_stack_pointer |-> 0, last_valid_frame |-> 100],
     [nframe |-> -2, endstack |-> FALSE, last_unwind_address |-> 0,
      last_stack_pointer |-> StackBase, last_valid_frame |-> 0]}

NoThreadState == [r \in ThreadStateRegs |-> 0]
NoMemory == [words |-> 0, content |-> <<>>]

\* the record of a call: `last` holds the most recent one
NoCall ==
    [op |-> "none", ret |-> NoReturn, stepped |-> FALSE,
     unwr |-> UNW_STEP_SUCCESS, pc_before |-> 0, pc_after |-> 0, scan |-> NoScan,
     initres |-> UNW_ESUCCESS,
     regnum |-> "OTHER", set |-> FALSE, val |-> 0,
     queries |-> <<>>, name |-> "", aborted |-> FALSE]

AdvanceCall(o) ==
    [NoCall EXCEPT !.op = "next", !.ret = o.ret, !.stepped = o.stepped,
                   !.unwr = o.unwr, !.pc_before = o.pc_before,
                   !.pc_after = o.pc_after, !.scan = o.scan,
                   !.initres = o.initres]

RegisterCall(op, regnum, g) ==
    [NoCall EXCEPT !.op = op, !.ret = g.ret, !.regnum = regnum,
                   !.set = g.set, !.val = g.val]

(***************************************************************************)
(* plframe_cursor_thread_init                                              *)
(***************************************************************************)
KERN_SUCCESS == 0
\* what thread_get_state may answer: its status, and whether the count it
\* reports back in state_count is the count of the flavor asked for
KernResults == {KERN_SUCCESS, 5}    \* KERN_FAILURE
ThreadStateReplies == [kr : KernResults, exact : BOOLEAN]

\* the __ss buffer after thread_get_state(thread, x86_THREAD_STATE64, buf,
\* &state_count): untouched on failure, the thread's registers on success,
\* only the leading ones of them when the kernel reports a shorter state
thread_get_state(buf, t, reply) ==
    IF reply.kr # KERN_SUCCESS THEN buf
    ELSE IF reply.exact THEN t
    ELSE [r \in ThreadStateRegs |->
             IF RegIndex(r) <= Len(RegOrder) \div 2 THEN t[r] ELSE buf[r]]

\* the three queries (general-purpose, floating-point, exception state), then
\* plframe_cursor_init on the assembled context; `queries` are those made
plframe_cursor_thread_init(c, u, s, t, gp, fp, exc, res) ==
    LET s1 == thread_get_state(s, t, gp)
        failed(qs) == [ret |-> PLFRAME_INTERNAL, inited |-> FALSE, cursor |-> c,
                       unwcrsr |-> u, ss |-> s1, queries |-> qs]
    IN IF gp.kr # KERN_SUCCESS THEN failed(<<gp>>)
       ELSE IF fp.kr # KERN_SUCCESS THEN failed(<<gp, fp>>)
       ELSE IF exc.kr # KERN_SUCCESS THEN failed(<<gp, fp, exc>>)
       ELSE [ret |-> plframe_error_from_unwerror(res), inited |-> TRUE,
             cursor |-> init_cursor(s1), unwcrsr |-> unw_init_local(s1),
             ss |-> s1, queries |-> <<gp, fp, exc>>]

(***************************************************************************)
(* plframe_cursor_next, manual frame-pointer variant                       *)
(* (PL_WALK_STACK_FRAMES_MANUALLY).  The cursor holds the frame record     *)
(* read last: fp[1] is the saved frame pointer (cursor->fp[0]), fp[2] the  *)
(* return address (cursor->fp[1]); NULL is 0.                              *)
(***************************************************************************)
\* plframe_read_addr(loc, cursor->fp, sizeof(cursor->fp)): both words of the
\* frame record, or a failure that leaves cursor->fp as it was
plframe_read_fp(m, loc, fp) ==
    LET w0 == plframe_read_addr(m, loc)
        w1 == plframe_read_addr(m, Wrap(loc + WordSize))
    IN IF w0.ok /\ w1.ok
       THEN [kr |-> KERN_SUCCESS, fp |-> <<w0.data, w1.data>>]
       ELSE [kr |-> 1, fp |-> fp]

\* the older variant's plframe_cursor_init sets nframe and fp[0]
init_cursor_manual(c) == [c EXCEPT !.nframe = -1, !.fp[1] = 0]

plframe_cursor_next_manual(c, s, m) ==
    LET prevfp == c.fp[1]
    IN IF c.nframe = -1
       THEN [cursor |-> [c EXCEPT !.nframe = c.nframe + 1], ret |-> PLFRAME_ESUCCESS]
       ELSE LET r == IF c.fp[1] = 0
                     THEN plframe_read_fp(m, s["RBP"], c.fp)
                     ELSE plframe_read_fp(m, c.fp[1], c.fp)
                c1 == [nframe |-> c.nframe + 1, fp |-> r.fp]
            IN [cursor |-> c1,
                ret |-> IF r.kr # KERN_SUCCESS THEN PLFRAME_EBADFRAME
                        ELSE IF c1.fp[1] = 0 THEN PLFRAME_ENOFRAME
                        ELSE IF c1.nframe >= 0 /\ prevfp > c1.fp[1]
                        THEN PLFRAME_EBADFRAME
                        ELSE PLFRAME_ESUCCESS]

\* the older variant's cursor before its plframe_cursor_init
NoTwin ==
    [cursor |-> [nframe |-> 0, endstack |-> FALSE, last_unwind_address |-> 0,
                 last_stack_pointer |-> 0, last_valid_frame |-> 0],
     unwcrsr |-> unw_init_local(NoThreadState),
     ret |-> NoReturn, stepped |-> FALSE]

\* the manual variant's cursor before its plframe_cursor_init
IndeterminateFp == {[nframe |-> 0, fp |-> <<8200, 0>>]}

Init ==
    /\ variant \in {"scan", "libunwind"}
    /\ inited = FALSE
    /\ cursor \in Indeterminate
    /\ unwcrsr = unw_init_local(NoThreadState)
    /\ ss = NoThreadState
    /\ thread \in ThreadStates
    /\ image_list \in ImageLists
    /\ mem \in Memories \cup {NoMemory}
    \* the scanner is the only reader of memory and of the image list, and
    \* only a stack pointer inside the mapped stack makes its contents matter
    /\ (variant = "libunwind" \/ thread["RSP"] # StackBase) =>
           /\ mem = NoMemory
           /\ cursor.nframe = 0
    /\ variant = "libunwind" => image_list = <<Image1>> /\ thread["RSP"] = StackBase
    /\ thread["RSP"] = StackBase /\ variant = "scan" => mem # NoMemory
    /\ last = NoCall
    /\ reading = 0
    /\ session = [s \in Sessions |-> IdleSession]
    /\ unw_more = 0
    /\ twin = NoTwin
    /\ fpcursor \in IndeterminateFp

\* plframe_cursor_init(cursor, uap, image_list) on the caller's context
CursorInit ==
    /\ ~inited
    /\ \E res \in UnwInitResults :
         /\ ss' = thread
         /\ cursor' = IF variant = "scan" THEN init_cursor(thread)
                                           ELSE init_cursor_libunwind(cursor)
         /\ unwcrsr' = unw_init_local(thread)
         /\ inited' = TRUE
         /\ last' = [NoCall EXCEPT !.op = "init",
                                    !.ret = plframe_error_from_unwerror(res)]
    /\ UNCHANGED <<variant, thread, image_list, mem, reading, session, other_walks>>

\* plframe_cursor_next(cursor), current variant
Advance ==
    /\ inited
    /\ variant = "scan"
    /\ cursor.nframe < MaxFrames
    /\ \E unwr \in UnwStepResults, newip \in PCs, initres \in UnwInitResults :
         LET o == plframe_cursor_next(cursor, unwcrsr, ss, mem, image_list,
                                      unwr, newip, initres)
         IN /\ cursor' = o.cursor
            /\ unwcrsr' = o.unwcrsr
            /\ last' = AdvanceCall(o)
    /\ UNCHANGED <<variant, inited, ss, thread, image_list, mem, reading, session, other_walks>>

\* plframe_cursor_next(cursor), older libunwind-only variant
AdvanceLibunwind ==
    /\ inited
    /\ variant = "libunwind"
    /\ cursor.nframe < MaxFrames
    /\ \E unwr \in UnwStepResults, newip \in PCs :
         LET o == plframe_cursor_next_libunwind(cursor, unwcrsr, unwr, newip)
         IN /\ cursor' = o.cursor
            /\ unwcrsr' = o.unwcrsr
            /\ last' = AdvanceCall(o)
    /\ UNCHANGED <<variant, inited, ss, thread, image_list, mem, reading, session, other_walks>>

\* plframe_get_reg(cursor, regnum, &reg)
GetReg ==
    /\ inited
    /\ variant = "scan"
    /\ \E regnum \in CalledRegIds :
         LET g == plframe_get_reg(cursor, unwcrsr, ss, regnum)
         IN last' = RegisterCall("get_reg", regnum, g)
    /\ UNCHANGED <<variant, inited, cursor, unwcrsr, ss, thread, image_list, mem,
                   reading, session, other_walks>>

\* plframe_get_freg(cursor, regnum, &fpreg)
GetFreg ==
    /\ inited
    /\ \E regnum \in CalledRegIds :
         LET g == plframe_get_freg(cursor, regnum)
         IN last' = RegisterCall("get_freg", regnum, g)
    /\ UNCHANGED <<variant, inited, cursor, unwcrsr, ss, thread, image_list, mem,
                   reading, session, other_walks>>

\* plframe_cursor_thread_init(cursor, thread, image_list)
ThreadInit ==
    /\ ~inited
    /\ \E gp \in ThreadStateReplies, fp \in ThreadStateReplies,
          exc \in ThreadStateReplies, res \in UnwInitResults :
         LET o == plframe_cursor_thread_init(cursor, unwcrsr, ss, thread,
                                             gp, fp, exc, res)
         IN /\ inited' = o.inited
            /\ cursor' = o.cursor
            /\ unwcrsr' = o.unwcrsr
            /\ ss' = o.ss
            /\ last' = [NoCall EXCEPT !.op = "thread_init", !.ret = o.ret,
                                       !.queries = o.queries]
    /\ UNCHANGED <<variant, thread, image_list, mem, reading, session, other_walks>>

\* plframe_get_regname(regnum); abort() ends the process
GetRegname ==
    /\ \E regnum \in CalledRegIds :
         LET n == plframe_get_regname(regnum)
         IN last' = [NoCall EXCEPT !.op = "get_regname", !.regnum = regnum,
                                   !.name = n.name, !.aborted = n.abort]
    /\ UNCHANGED <<variant, inited, cursor, unwcrsr, ss, thread, image_list, mem,
                   reading, session, other_walks>>

\* a session calls plframe_cursor_address_looks_valid(cursor, address)
LooksValidEnter(s) ==
    /\ session[s].pc = "idle"
    /\ \E address \in ValidatorAddresses :
         LET o == looks_valid_enter(reading, address)
         IN /\ reading' = o.reading
            /\ session' = [session EXCEPT ![s] = o.session]
    /\ UNCHANGED <<variant, inited, cursor, unwcrsr, ss, thread, image_list, mem,
                   last, other_walks>>

\* a session inside the loop asks the list for its next entry and tests it
LooksValidIterate(s) ==
    /\ session[s].pc = "loop"
    /\ session' = [session EXCEPT ![s] = looks_valid_iterate(image_list, session[s])]
    /\ UNCHANGED <<variant, inited, cursor, unwcrsr, ss, thread, image_list, mem,
                   last, reading, other_walks>>

\* a session out of the loop clears its marker and returns
LooksValidLeave(s) ==
    /\ session[s].pc \in {"found", "exhausted"}
    /\ LET o == looks_valid_leave(reading, session[s])
       IN /\ reading' = o.reading
          /\ session' = [session EXCEPT ![s] = o.session]
    /\ UNCHANGED <<variant, inited, cursor, unwcrsr, ss, thread, image_list, mem,
                   last, other_walks>>

Next ==
    \/ CursorInit
    \/ Advance
    \/ AdvanceLibunwind
    \/ GetReg
    \/ GetFreg

Spec == Init /\ [][Next]_vars

(***************************************************************************)
(* The cursor built from a live thread, and the register names: one thread *)
(* with its stack pointer in the mapped stack, walked by the current       *)
(* variant.                                                                *)
(***************************************************************************)
InitThread ==
    /\ variant = "scan"
    /\ inited = FALSE
    /\ cursor \in Indeterminate
    /\ unwcrsr = unw_init_local(NoThreadState)
    /\ ss = NoThreadState
    /\ thread \in {t \in ThreadStates : t["RSP"] = StackBase}
    /\ image_list = <<Image1>>
    /\ mem \in {m \in Memories : m.words = 2}
    /\ last = NoCall
    /\ reading = 0
    /\ session = [s \in Sessions |-> IdleSession]
    /\ unw_more = 0
    /\ twin = NoTwin
    /\ fpcursor \in IndeterminateFp

\* no call is made once abort() has ended the process
Running == ~last.aborted

NextThread ==
    \/ Running /\ ThreadInit
    \/ Running /\ Advance
    \/ Running /\ GetReg
    \/ Running /\ GetRegname

SpecThread == InitThread /\ [][NextThread]_vars

(***************************************************************************)
(* Several unwinding sessions validating addresses against one image list. *)
(***************************************************************************)
InitSessions ==
    /\ variant = "scan"
    /\ inited = FALSE
    /\ cursor \in Indeterminate
    /\ unwcrsr = unw_init_local(NoThreadState)
    /\ ss = NoThreadState
    /\ thread \in {t \in ThreadStates : t["RSP"] = StackBase}
    /\ image_list \in ValidatorImageLists
    /\ mem = NoMemory
    /\ last = NoCall
    /\ reading = 0
    /\ session = [s \in Sessions |-> IdleSession]
    /\ unw_more = 0
    /\ twin = NoTwin
    /\ fpcursor \in IndeterminateFp

NextSessions ==
    \E s \in Sessions :
        \/ LooksValidEnter(s)
        \/ LooksValidIterate(s)
        \/ LooksValidLeave(s)

SpecSessions == InitSessions /\ [][NextSessions]_vars

(***************************************************************************)
(* A whole walk by the current variant: the caller initialises the cursor  *)
(* and calls plframe_cursor_next for as long as it returns success.        *)
(* After a seeding libunwind reports a further frame at most MaxMore       *)
(* times, unw_more of which are left, and then the end of the stack or an  *)
(* error; it may report either earlier.                                    *)
(***************************************************************************)
InitWalk ==
    /\ variant = "scan"
    /\ inited = FALSE
    /\ cursor \in Indeterminate
    /\ unwcrsr = unw_init_local(NoThreadState)
    /\ ss = NoThreadState
    /\ thread \in ThreadStates
    /\ image_list \in ImageLists
    /\ mem \in Memories
    /\ last = NoCall
    /\ reading = 0
    /\ session = [s \in Sessions |-> IdleSession]
    /\ unw_more = MaxMore
    /\ twin = NoTwin
    /\ fpcursor \in IndeterminateFp

\* the caller's loop: while (plframe_cursor_next(cursor) == PLFRAME_ESUCCESS)
WalkAdvance ==
    /\ inited
    /\ last.op = "init" \/ (last.op = "next" /\ last.ret = PLFRAME_ESUCCESS)
    /\ \E unwr \in UnwStepResults, newip \in PCs, initres \in UnwInitResults :
         /\ unwr = UNW_STEP_SUCCESS => unw_more > 0
         /\ LET o == plframe_cursor_next(cursor, unwcrsr, ss, mem, image_list,
                                         unwr, newip, initres)
            IN /\ cursor' = o.cursor
               /\ unwcrsr' = o.unwcrsr
               /\ last' = AdvanceCall(o)
               /\ unw_more' = IF ~o.stepped THEN unw_more
                              ELSE IF o.scan.ret = PLFRAME_ESUCCESS THEN MaxMore
                              ELSE IF unwr = UNW_STEP_SUCCESS THEN unw_more - 1
                              ELSE unw_more
    /\ UNCHANGED <<variant, inited, ss, thread, image_list, mem, reading, session,
                   twin, fpcursor>>

NextWalk ==
    \/ CursorInit
    \/ WalkAdvance

SpecWalk ==
    /\ InitWalk
    /\ [][NextWalk]_vars
    /\ WF_vars(CursorInit)
    /\ WF_vars(WalkAdvance)

(***************************************************************************)
(* The current variant and the older libunwind-only variant side by side:  *)
(* `cursor` is walked by the current variant, `twin` by the older one, over *)
(* the same snapshot, and libunwind gives both the same answers.  A 'done' *)
(* never comes with the program counter libunwind had before the step.     *)
(***************************************************************************)
InitPair ==
    /\ variant = "scan"
    /\ inited = FALSE
    /\ cursor \in Indeterminate
    /\ unwcrsr = unw_init_local(NoThreadState)
    /\ ss = NoThreadState
    /\ thread \in ThreadStates
    /\ image_list \in ImageLists
    /\ mem \in Memories
    /\ last = NoCall
    /\ reading = 0
    /\ session = [s \in Sessions |-> IdleSession]
    /\ unw_more = 0
    /\ twin = NoTwin
    /\ fpcursor \in IndeterminateFp

\* plframe_cursor_init(cursor, uap), both variants
PairInit ==
    /\ ~inited
    /\ \E res \in UnwInitResults :
         /\ ss' = thread
         /\ cursor' = init_cursor(thread)
         /\ unwcrsr' = unw_init_local(thread)
         /\ twin' = [cursor |-> init_cursor_libunwind(twin.cursor),
                     unwcrsr |-> unw_init_local(thread),
                     ret |-> plframe_error_from_unwerror(res), stepped |-> FALSE]
         /\ inited' = TRUE
         /\ last' = [NoCall EXCEPT !.op = "init",
                                    !.ret = plframe_error_from_unwerror(res)]
    /\ UNCHANGED <<variant, thread, image_list, mem, reading, session, unw_more, fpcursor>>

\* plframe_cursor_next(cursor), both variants, with the same answer of libunwind
PairAdvance ==
    /\ inited
    /\ cursor.nframe < MaxFrames
    /\ \E unwr \in UnwStepResults, newip \in PCs, initres \in UnwInitResults :
         /\ ~(unwr = UNW_STEP_END /\ newip = unw_get_ip(unwcrsr))
         /\ LET o == plframe_cursor_next(cursor, unwcrsr, ss, mem, image_list,
                                         unwr, newip, initres)
                t == plframe_cursor_next_libunwind(twin.cursor, twin.unwcrsr, unwr, newip)
            IN /\ cursor' = o.cursor
               /\ unwcrsr' = o.unwcrsr
               /\ last' = AdvanceCall(o)
               /\ twin' = [cursor |-> t.cursor, unwcrsr |-> t.unwcrsr,
                           ret |-> t.ret, stepped |-> t.stepped]
    /\ UNCHANGED <<variant, inited, ss, thread, image_list, mem, reading, session,
                   unw_more, fpcursor>>

NextPair ==
    \/ PairInit
    \/ PairAdvance

SpecPair == InitPair /\ [][NextPair]_vars

(***************************************************************************)
(* The manual frame-pointer variant, walked over stacks that hold chains   *)
(* of frame records.                                                       *)
(***************************************************************************)
\* saved frame pointers found on the stack: addresses of frame records
FrameWords == {StackBase + k * WordSize : k \in {0, 2, 4}}

\* the stacks: at most MaxHits words of FrameWords, zero (NULL) elsewhere
FrameMemories ==
    {m \in [words : MappedWords,
            content : UNION {[S -> FrameWords] :
                               S \in {T \in SUBSET HitIdx : Cardinality(T) <= MaxHits}}] :
        \A k \in DOMAIN m.content : k < m.words}

\* snapshots whose frame-pointer register points at a frame record of the
\* stack, or at no mapped memory
FrameThreadStates ==
    {[t EXCEPT !["RBP"] = bp] :
        t \in {u \in ThreadStates : u["RSP"] = StackBase},
        bp \in {StackBase, StackBase + 2 * WordSize, AddrSpace - 2 * WordSize}}

InitManual ==
    /\ variant = "manual"
    /\ inited = FALSE
    /\ cursor \in Indeterminate
    /\ unwcrsr = unw_init_local(NoThreadState)
    /\ ss = NoThreadState
    /\ thread \in FrameThreadStates
    /\ image_list \in ImageLists
    /\ mem \in FrameMemories
    /\ last = NoCall
    /\ reading = 0
    /\ session = [s \in Sessions |-> IdleSession]
    /\ unw_more = 0
    /\ twin = NoTwin
    /\ fpcursor \in IndeterminateFp

\* plframe_cursor_init(cursor, uap), older source
ManualInit ==
    /\ ~inited
    /\ \E res \in UnwInitResults :
         /\ ss' = thread
         /\ fpcursor' = init_cursor_manual(fpcursor)
         /\ unwcrsr' = unw_init_local(thread)
         /\ inited' = TRUE
         /\ last' = [NoCall EXCEPT !.op = "init",
                                    !.ret = plframe_error_from_unwerror(res)]
    /\ UNCHANGED <<variant, cursor, thread, image_list, mem, reading, session,
                   unw_more, twin>>

\* plframe_cursor_next(cursor), manual frame-pointer variant
ManualAdvance ==
    /\ inited
    /\ fpcursor.nframe < MaxFrames
    /\ LET o == plframe_cursor_next_manual(fpcursor, ss, mem)
       IN /\ fpcursor' = o.cursor
          /\ last' = [NoCall EXCEPT !.op = "next", !.ret = o.ret]
    /\ UNCHANGED <<variant, inited, cursor, unwcrsr, ss, thread, image_list, mem,
                   reading, session, unw_more, twin>>

NextManual ==
    \/ ManualInit
    \/ ManualAdvance

SpecManual == InitManual /\ [][NextManual]_vars

(***************************************************************************)
(* Vocabulary of the properties.                                           *)
(***************************************************************************)
Current == inited /\ variant = "scan"

\* the cursor states of the state machine
Uninitialized == inited /\ cursor.nframe = -1
EndOfStack ==
    /\ inited
    /\ IF variant = "scan" THEN cursor.endstack ELSE cursor.nframe = -2

\* the most recent call was an advance, an advance that stepped the provider,
\* an advance that called the scanner
Advanced == last.op = "next"
Stepped == Advanced /\ last.stepped
Scanned == Advanced /\ last.scan.ret # NoReturn
StepDone == Stepped /\ last.unwr = UNW_STEP_END
SamePC == last.pc_after = last.pc_before

\* the same of the call a step ends with
AdvancedNext == last'.op = "next" /\ vars' # vars
SteppedNext == AdvancedNext /\ last'.stepped
ScannedNext == AdvancedNext /\ last'.scan.ret # NoReturn

\* the scan of the most recent call: its watermark on entry, the k-th word
\* from it, whether that word is readable and accepted by the validator
ScanFrom == last.scan.in.last_stack_pointer
WordAt(k) == plframe_read_addr(mem, Wrap(ScanFrom + k * WordSize))
Accepted(k) ==
    /\ WordAt(k).ok
    /\ plframe_cursor_address_looks_valid(image_list, WordAt(k).data).valid
\* word K is the first accepted one, every earlier word readable and rejected
FirstAccepted(K) ==
    /\ Accepted(K)
    /\ \A j \in 0 .. (K - 1) : WordAt(j).ok /\ ~Accepted(j)
\* the read of word f is the first to fail, no earlier word accepted
FirstFailure(f) ==
    /\ ~WordAt(f).ok
    /\ \A j \in 0 .. (f - 1) : WordAt(j).ok /\ ~Accepted(j)
\* the words the loop visits: indices 0 .. search_space
ScanWindow == 0 .. search_space

(***************************************************************************)
(* C1                                                                      *)
(***************************************************************************)
\* C1: in both variants, once the cursor is in EndOfStack every step leaves
\* the cursor and the provider handle untouched, and every advance returns
\* NoMoreFrames without stepping the provider or calling the scanner.
C1_EndOfStackIsTerminal ==
    [][EndOfStack =>
          /\ cursor' = cursor
          /\ unwcrsr' = unwcrsr
          /\ EndOfStack'
          /\ AdvancedNext =>
                /\ last'.ret = PLFRAME_ENOFRAME
                /\ ~last'.stepped
                /\ last'.scan = NoScan]_vars

C1_Witness ==
    /\ Current
    /\ EndOfStack
    /\ Advanced
    /\ last.ret = PLFRAME_ENOFRAME

(***************************************************************************)
(* C2                                                                      *)
(***************************************************************************)
\* C2: an advance whose step reports done on an unchanged program counter and
\* whose scan reports no frame puts the cursor in EndOfStack and returns
\* NoMoreFrames.
C2_ScanNoFrameReturnsNoMoreFrames ==
    (Current /\ StepDone /\ SamePC /\ last.scan.ret = PLFRAME_ENOFRAME) =>
        /\ cursor.endstack
        /\ last.ret = PLFRAME_ENOFRAME

(***************************************************************************)
(* C3                                                                      *)
(***************************************************************************)
\* C3: an advance calls the scanner exactly when its step reported done with
\* the program counter it had before the step; done on another program
\* counter ends the walk without a scan; more or an error never scans.
C3_DuplicateFrameHeuristic ==
    (Current /\ Advanced) =>
        /\ Scanned <=> (StepDone /\ SamePC)
        /\ (StepDone /\ ~SamePC) => (cursor.endstack /\ ~Scanned)
        /\ (Stepped /\ ~StepDone) => ~Scanned

C3_Witness == Current /\ Scanned /\ StepDone /\ SamePC

(***************************************************************************)
(* C4                                                                      *)
(***************************************************************************)
\* C4: an advance whose step reports done on a new program counter returns
\* success, records that program counter as last_valid_frame and raises the
\* end-of-stack flag; the advance after it returns NoMoreFrames.
C4_DoneOnNewPCEndsAfterThisCall ==
    /\ []((Current /\ StepDone /\ ~SamePC) =>
             /\ last.ret = PLFRAME_ESUCCESS
             /\ cursor.last_valid_frame = last.pc_after
             /\ cursor.endstack)
    /\ [][(Current /\ StepDone /\ ~SamePC /\ AdvancedNext) =>
             last'.ret = PLFRAME_ENOFRAME]_vars

C4_Witness == Current /\ StepDone /\ ~SamePC

(***************************************************************************)
(* C5                                                                      *)
(***************************************************************************)
\* C5 as stated: the frame index is -1 after initialization, never decreases,
\* grows by one with every advance that returns success and is left alone by
\* every advance that does not.
C5_FrameIndexAsStated ==
    [][variant = "scan" =>
          /\ (~inited /\ inited') => cursor'.nframe = -1
          /\ inited => cursor'.nframe >= cursor.nframe
          /\ (inited /\ AdvancedNext) =>
                cursor'.nframe = cursor.nframe +
                    (IF last'.ret = PLFRAME_ESUCCESS THEN 1 ELSE 0)]_vars

\* C5 amended: the frame index is -1 after initialization, never decreases,
\* and grows by exactly one with every advance made before the end of the
\* stack, whether it returns success (a fallback scan included) or a provider
\* error; only an advance on EndOfStack leaves it unchanged.
C5_FrameIndex ==
    [][variant = "scan" =>
          /\ (~inited /\ inited') => cursor'.nframe = -1
          /\ inited => cursor'.nframe >= cursor.nframe
          /\ (inited /\ AdvancedNext) =>
                /\ cursor'.nframe = cursor.nframe + (IF EndOfStack THEN 0 ELSE 1)
                /\ last'.ret = PLFRAME_ESUCCESS =>
                      cursor'.nframe = cursor.nframe + 1]_vars

C5_Witness ==
    /\ Current
    /\ Scanned
    /\ last.scan.ret = PLFRAME_ESUCCESS
    /\ last.ret = PLFRAME_ESUCCESS
    /\ cursor.nframe = 2

(***************************************************************************)
(* C6                                                                      *)
(***************************************************************************)
\* C6: the first advance after initialization returns success and moves the
\* cursor to frame 0, changing nothing else of the cursor, leaving the
\* provider handle alone and calling neither unw_step nor the scanner.
C6_FirstAdvance ==
    [][(Current /\ Uninitialized /\ AdvancedNext) =>
          /\ last'.ret = PLFRAME_ESUCCESS
          /\ cursor' = [cursor EXCEPT !.nframe = 0]
          /\ unwcrsr' = unwcrsr
          /\ ~last'.stepped
          /\ last'.scan = NoScan]_vars

C6_Witness ==
    /\ Current
    /\ Advanced
    /\ cursor.nframe = 0
    /\ last.ret = PLFRAME_ESUCCESS

(***************************************************************************)
(* C7                                                                      *)
(***************************************************************************)
\* C7: an advance whose step reports an error returns the translation of
\* that error, moves the frame index on by one, and
\* changes neither the end-of-stack flag, which stays unset, nor
\* last_valid_frame.
C7_StepError ==
    [][(Current /\ SteppedNext /\ last'.unwr < 0) =>
          /\ last'.ret = plframe_error_from_unwerror(last'.unwr)
          /\ cursor'.nframe = cursor.nframe + 1
          /\ ~cursor.endstack
          /\ ~cursor'.endstack
          /\ cursor'.last_valid_frame = cursor.last_valid_frame]_vars

C7_Witness ==
    /\ Current
    /\ Stepped
    /\ last.unwr < 0
    /\ cursor.nframe = 2

(***************************************************************************)
(* C8                                                                      *)
(***************************************************************************)
\* C8: on every reachable cursor with frame index above 0, plframe_get_reg
\* answers UnsupportedRegister for every register id but the program counter
\* and answers the program counter with success and last_valid_frame; a call
\* of plframe_get_reg changes neither the cursor, the provider handle nor
\* the snapshot.
C8_RegistersAfterFirstFrame ==
    /\ []((Current /\ cursor.nframe > 0) =>
             /\ \A r \in RegIds \ {"RIP"} :
                   plframe_get_reg(cursor, unwcrsr, ss, r).ret = PLFRAME_ENOTSUP
             /\ plframe_get_reg(cursor, unwcrsr, ss, "RIP") =
                   [ret |-> PLFRAME_ESUCCESS, set |-> TRUE,
                    val |-> cursor.last_valid_frame]
             /\ last.op = "get_reg" =>
                   IF last.regnum = "RIP"
                   THEN /\ last.ret = PLFRAME_ESUCCESS
                        /\ last.val = cursor.last_valid_frame
                   ELSE last.ret = PLFRAME_ENOTSUP /\ ~last.set)
    /\ [][(last'.op = "get_reg" /\ vars' # vars) =>
             /\ cursor' = cursor
             /\ unwcrsr' = unwcrsr
             /\ ss' = ss]_vars

C8_Witness ==
    /\ Current
    /\ cursor.nframe > 0
    /\ last.op = "get_reg"
    /\ last.regnum = "RSP"
    /\ last.ret = PLFRAME_ENOTSUP

(***************************************************************************)
(* C9                                                                      *)
(***************************************************************************)
\* C9: when word K < search_space from the watermark W is the first the
\* validator accepts, every earlier word readable and rejected, the scanner
\* returns success, sets last_valid_frame to that word and the watermark to
\* W + (K + 1) * WordSize, and changes nothing else of the cursor.
C9_ScanFindsFirstAcceptedWord ==
    Scanned =>
        \A K \in 0 .. (search_space - 1) :
            FirstAccepted(K) =>
                /\ last.scan.ret = PLFRAME_ESUCCESS
                /\ last.scan.out =
                      [last.scan.in EXCEPT
                          !.last_valid_frame = WordAt(K).data,
                          !.last_stack_pointer = ScanFrom + (K + 1) * WordSize]

C9_Witness ==
    /\ Scanned
    /\ FirstAccepted(search_space - 1)
    /\ last.scan.ret = PLFRAME_ESUCCESS

ZeroUpperBits(a) == a < LowSpace
\* image i of the list holds the address, both ends of its range included
Holds(il, i, a) == il[i].header <= a /\ a <= il[i].header + il[i].textsize
CoveredBy(il, a) == \E i \in 1 .. Len(il) : Holds(il, i, a)
FirstMatch(il, a) ==
    CHOOSE i \in 1 .. Len(il) : Holds(il, i, a) /\ \A j \in 1 .. (i - 1) : ~Holds(il, j, a)
\* the session's call has returned
Returned(s) == session[s].pc = "idle" /\ session[s].done
\* set_reading(true) calls of the session not yet undone
Holding(s) == session[s].acquired - session[s].released

(***************************************************************************)
(* C11                                                                     *)
(***************************************************************************)
\* C11: for every address with zero upper bits and every image list, one
\* covering the address included, the validator returns false, makes no
\* set_reading call and asks the list for no entry; a session called with
\* such an address is back at once, the reader count as it was.
C11_LowAddressFastPath ==
    /\ [](/\ \A a \in 0 .. (LowSpace - 1) :
               plframe_cursor_address_looks_valid(image_list, a) =
                   [valid |-> FALSE, nexts |-> 0, marker |-> <<>>]
          /\ \A s \in Sessions : ZeroUpperBits(session[s].address) =>
               /\ session[s].pc = "idle"
               /\ ~session[s].valid
               /\ session[s].acquired = 0
               /\ session[s].released = 0
               /\ session[s].nexts = 0
               /\ session[s].entry = 0)
    /\ [][\A s \in Sessions :
            (session'[s] # session[s] /\ ZeroUpperBits(session'[s].address)) =>
                reading' = reading]_vars

C11_Witness ==
    \E s \in Sessions :
        /\ Returned(s)
        /\ session[s].address = 100
        /\ CoveredBy(image_list, 100)
        /\ ~session[s].valid

(***************************************************************************)
(* C12                                                                     *)
(***************************************************************************)
\* C12: plframe_cursor_thread_init returns PLFRAME_INTERNAL and leaves the
\* cursor not set up whenever one of the queries it made reported a failure
\* status or a count other than the expected one, and sets the cursor up
\* only after three queries that all succeeded with the exact count.
C12_ThreadInitChecksStatusAndSize ==
    last.op = "thread_init" =>
        LET mismatch == \E i \in 1 .. Len(last.queries) :
                            \/ last.queries[i].kr # KERN_SUCCESS
                            \/ ~last.queries[i].exact
        IN /\ mismatch => (last.ret = PLFRAME_INTERNAL /\ ~inited)
           /\ inited => (Len(last.queries) = 3 /\ ~mismatch)

(***************************************************************************)
(* C13                                                                     *)
(***************************************************************************)
\* C13: at frame 0 of a cursor set up from a captured thread state,
\* plframe_get_reg succeeds for every register of the general-purpose thread
\* state and returns the value the captured state holds for it.
C13_FrameZeroRoundTrip ==
    (Current /\ cursor.nframe = 0) =>
        /\ ss = thread
        /\ \A r \in ThreadStateRegs :
              plframe_get_reg(cursor, unwcrsr, ss, r) =
                  [ret |-> PLFRAME_ESUCCESS, set |-> TRUE, val |-> thread[r]]
        /\ (last.op = "get_reg" /\ last.regnum \in ThreadStateRegs) =>
              /\ last.ret = PLFRAME_ESUCCESS
              /\ last.val = thread[last.regnum]

(***************************************************************************)
(* C14                                                                     *)
(***************************************************************************)
\* the ids plframe_get_reg's switch lists
SupportedRegs == UnwMappedRegs \cup SnapshotOnlyRegs \cup {"RIP"}
\* the ids plframe_get_regname has a name for
NamedRegs == {r \in RegIds : ~plframe_get_regname(r).abort}
\* the ids plframe_get_reg accepts on the current cursor
AcceptedRegs ==
    {r \in RegIds : plframe_get_reg(cursor, unwcrsr, ss, r).ret # PLFRAME_ENOTSUP}

\* C14: plframe_get_regname gives every id of plframe_get_reg's switch a
\* non-empty name, different ids different names; the ids it names are the
\* ids plframe_get_reg accepts at frame 0; for any other id it aborts,
\* returning no name, and no call follows an abort.
C14_RegisterNames ==
    /\ [](/\ NamedRegs = SupportedRegs
          /\ \A r \in SupportedRegs : plframe_get_regname(r).name # ""
          /\ \A r1, r2 \in SupportedRegs :
                r1 # r2 => plframe_get_regname(r1).name # plframe_get_regname(r2).name
          /\ (Current /\ cursor.nframe = 0) => AcceptedRegs = NamedRegs
          /\ last.op = "get_regname" =>
                /\ last.aborted <=> last.regnum \notin SupportedRegs
                /\ last.aborted => last.name = ""
                /\ ~last.aborted => last.name # "")
    /\ [][~last.aborted]_vars

C14_Witness ==
    /\ Current
    /\ cursor.nframe = 0
    /\ last.op = "get_regname"
    /\ last.regnum = "R8"
    /\ last.aborted

(***************************************************************************)
(* C15                                                                     *)
(***************************************************************************)
\* C15: in every state of either variant's cursor (Uninitialized, a frame,
\* EndOfStack) plframe_get_freg answers every register id with
\* UnsupportedRegister and writes no value, and a call of it changes neither
\* the cursor, the provider handle nor the snapshot.
C15_FloatingPointUnsupported ==
    /\ [](/\ \A r \in RegIds :
               /\ plframe_get_freg(cursor, r).ret = PLFRAME_ENOTSUP
               /\ ~plframe_get_freg(cursor, r).set
          /\ last.op = "get_freg" => (last.ret = PLFRAME_ENOTSUP /\ ~last.set))
    /\ [][(last'.op = "get_freg" /\ vars' # vars) =>
             /\ cursor' = cursor
             /\ unwcrsr' = unwcrsr
             /\ ss' = ss]_vars

C15_Witness ==
    /\ Current
    /\ cursor.nframe = 0
    /\ last.op = "get_freg"
    /\ last.regnum = "RSP"
    /\ last.ret = PLFRAME_ENOTSUP

(***************************************************************************)
(* C16                                                                     *)
(***************************************************************************)
\* C16: one call of the scanner attempts at most search_space reads, of the
\* words 0 .. search_space - 1 from the watermark.
C16_ScanReadsAtMostBudget ==
    Scanned => last.scan.reads <= search_space

(***************************************************************************)
(* C17                                                                     *)
(***************************************************************************)
\* C17: for every address with non-zero upper bits and every image list the
\* validator returns true exactly when some image of the list holds the
\* address, both ends of its range included; it asks the list for entries up
\* to the first such image and no further, and for all of them and the
\* end of the list when there is none.
C17_ValidatorMatchesImages ==
    /\ \A a \in ValidatorAddresses : ~ZeroUpperBits(a) =>
          LET r == plframe_cursor_address_looks_valid(image_list, a)
          IN /\ r.valid <=> CoveredBy(image_list, a)
             /\ r.nexts = IF CoveredBy(image_list, a)
                          THEN FirstMatch(image_list, a)
                          ELSE Len(image_list) + 1
    /\ \A s \in Sessions :
          (Returned(s) /\ ~ZeroUpperBits(session[s].address)) =>
              LET a == session[s].address
              IN /\ session[s].valid <=> CoveredBy(image_list, a)
                 /\ session[s].valid =>
                       /\ session[s].entry = FirstMatch(image_list, a)
                       /\ session[s].nexts = FirstMatch(image_list, a)
                 /\ ~session[s].valid => session[s].nexts = Len(image_list) + 1
                 /\ session[s].valid =
                       plframe_cursor_address_looks_valid(image_list, a).valid

C17_Witness ==
    \E s \in Sessions :
        /\ Returned(s)
        /\ session[s].address = 8448
        /\ image_list = <<Image1, Image0>>
        /\ session[s].valid
        /\ session[s].nexts = 1

(***************************************************************************)
(* C18                                                                     *)
(***************************************************************************)
\* C18: in every interleaving of the sessions, a session asks the list for
\* an entry only while it holds the reading marker it set in the same call;
\* a call that set the marker has cleared it exactly once when it returns,
\* whether an image was found or the list exhausted; no session outside the
\* validator holds the marker, so the list's reader count is the number of
\* sessions inside the loop; and no step changes the image list.
C18_ReadingMarkerDiscipline ==
    /\ [](/\ \A s \in Sessions :
               /\ Holding(s) \in {0, 1}
               /\ session[s].pc = "idle" <=> Holding(s) = 0
               /\ session[s].nexts > 0 => session[s].acquired = 1
               /\ (Returned(s) /\ ~ZeroUpperBits(session[s].address)) =>
                     (session[s].acquired = 1 /\ session[s].released = 1)
          /\ reading = Cardinality({s \in Sessions : Holding(s) = 1}))
    /\ [][\A s \in Sessions :
            session'[s].nexts = session[s].nexts + 1 =>
                /\ session[s].acquired = 1 /\ session[s].released = 0
                /\ session'[s].acquired = 1 /\ session'[s].released = 0]_vars
    /\ [][image_list' = image_list]_vars

C18_Witness ==
    /\ reading = 2
    /\ session[1].pc = "found"
    /\ session[2].pc = "loop"
    /\ session[2].nexts = 1

(***************************************************************************)
(* C19                                                                     *)
(***************************************************************************)
\* C19: an advance whose fallback scan finds a frame re-initialises libunwind
\* from a copy of the snapshot in which the program counter alone is
\* replaced by the address found, every other register keeping the value
\* the thread state was captured with; it leaves the snapshot as it was,
\* leaves last_valid_frame at the address found and the end-of-stack flag
\* unset, and returns the translation of unw_init_local's result, success
\* when that is UNW_ESUCCESS.
C19_FallbackReseed ==
    [][(Current /\ ScannedNext /\ last'.scan.ret = PLFRAME_ESUCCESS) =>
          LET found == last'.scan.out.last_valid_frame
          IN /\ unwcrsr'.ctx = [ss EXCEPT !["RIP"] = found]
             /\ unw_get_ip(unwcrsr') = found
             /\ \A r \in ThreadStateRegs \ {"RIP"} : unwcrsr'.ctx[r] = thread[r]
             /\ ss' = ss
             /\ ss' = thread
             /\ cursor'.last_valid_frame = found
             /\ cursor'.last_stack_pointer = last'.scan.out.last_stack_pointer
             /\ ~cursor'.endstack
             /\ last'.ret = plframe_error_from_unwerror(last'.initres)
             /\ last'.initres = UNW_ESUCCESS => last'.ret = PLFRAME_ESUCCESS]_vars

C19_Witness ==
    /\ Current
    /\ Scanned
    /\ last.scan.ret = PLFRAME_ESUCCESS
    /\ last.ret = PLFRAME_ESUCCESS
    /\ unw_get_ip(unwcrsr) = 16400
    /\ ss["RIP"] = 8200
    /\ unwcrsr.ctx["RSP"] = ss["RSP"]
    /\ cursor.last_stack_pointer > ss["RSP"]

(***************************************************************************)
(* C20                                                                     *)
(***************************************************************************)
\* C20: last_valid_frame is the snapshot's program counter after
\* plframe_cursor_init and at frame 0; after an advance that returned
\* success it is the provider's program counter when the step reported more
\* (or done), and the address the scanner found, the first accepted word of
\* its window, after a fallback resync.  last_unwind_address is 0 until the
\* first step, is set by every step to the provider's program counter as it
\* was before that step, and is changed by nothing else.
C20_LastValidFrame ==
    /\ [](Current =>
            /\ last.op = "init" =>
                  (cursor.last_valid_frame = ss["RIP"] /\ cursor.last_unwind_address = 0)
            /\ (Advanced /\ cursor.nframe = 0) =>
                  (cursor.last_valid_frame = ss["RIP"] /\ cursor.last_unwind_address = 0)
            /\ (Stepped /\ last.ret = PLFRAME_ESUCCESS /\ last.scan.ret # PLFRAME_ESUCCESS) =>
                  /\ cursor.last_valid_frame = last.pc_after
                  /\ cursor.last_valid_frame = unw_get_ip(unwcrsr)
            /\ (Scanned /\ last.scan.ret = PLFRAME_ESUCCESS) =>
                  /\ cursor.last_valid_frame = last.scan.out.last_valid_frame
                  /\ \E K \in ScanWindow :
                        FirstAccepted(K) /\ cursor.last_valid_frame = WordAt(K).data
            /\ Stepped => cursor.last_unwind_address = last.pc_before
            /\ cursor.nframe > 0 =>
                  plframe_get_reg(cursor, unwcrsr, ss, "RIP").val = cursor.last_valid_frame)
    /\ [][Current =>
            IF SteppedNext
            THEN cursor'.last_unwind_address = unw_get_ip(unwcrsr)
            ELSE cursor'.last_unwind_address = cursor.last_unwind_address]_vars

C20_Witness ==
    /\ Current
    /\ Stepped
    /\ last.unwr = UNW_STEP_SUCCESS
    /\ last.ret = PLFRAME_ESUCCESS
    /\ cursor.last_valid_frame = 16400
    /\ cursor.last_unwind_address = 8200
    /\ cursor.nframe = 2

(***************************************************************************)
(* C21                                                                     *)
(***************************************************************************)
\* C21: last_stack_pointer is the snapshot's stack pointer after
\* plframe_cursor_init and is changed by nothing but a scan that finds a
\* frame, which moves it up to one word past the word found; a scan starts
\* at the watermark the cursor has, so at the snapshot's stack pointer or
\* one word past a word an earlier scan accepted.
C21_WatermarkMovedByScansOnly ==
    /\ [](Current =>
            /\ cursor.last_stack_pointer >= ss["RSP"]
            /\ Scanned =>
                  /\ \/ ScanFrom = ss["RSP"]
                     \/ /\ ScanFrom > ss["RSP"]
                        /\ LET w == plframe_read_addr(mem, ScanFrom - WordSize)
                           IN /\ w.ok
                              /\ plframe_cursor_address_looks_valid(image_list, w.data).valid
                  /\ IF last.scan.ret = PLFRAME_ESUCCESS
                     THEN /\ cursor.last_stack_pointer > ScanFrom
                          /\ \E K \in ScanWindow :
                                /\ FirstAccepted(K)
                                /\ cursor.last_stack_pointer = ScanFrom + (K + 1) * WordSize
                     ELSE cursor.last_stack_pointer = ScanFrom)
    /\ [][variant = "scan" =>
            /\ (~inited /\ inited') => cursor'.last_stack_pointer = thread["RSP"]
            /\ inited =>
                  IF ScannedNext /\ last'.scan.ret = PLFRAME_ESUCCESS
                  THEN cursor'.last_stack_pointer > cursor.last_stack_pointer
                  ELSE cursor'.last_stack_pointer = cursor.last_stack_pointer
            /\ (inited /\ ScannedNext) =>
                  last'.scan.in.last_stack_pointer = cursor.last_stack_pointer]_vars

C21_Witness ==
    /\ Current
    /\ Scanned
    /\ ScanFrom > ss["RSP"]
    /\ last.scan.ret = PLFRAME_ESUCCESS
    /\ cursor.last_stack_pointer > ScanFrom + WordSize
    /\ cursor.nframe = 3


(***************************************************************************)
(* C22: a caller that keeps calling plframe_cursor_next while it returns   *)
(* success eventually receives a non-success outcome, when the readable    *)
(* stack above the watermark is finite and libunwind reports a further     *)
(* frame only finitely often after each seeding.  The walk then is at the  *)
(* end of the stack unless libunwind reported an error, and every          *)
(* successful call of the walk brings it nearer to its end: a resync moves *)
(* the watermark over at least one readable word, any other call uses up   *)
(* one of libunwind's frames, loads the first frame or ends the stack.     *)
(***************************************************************************)
\* the caller's loop has ended
WalkOver == last.op = "next" /\ last.ret # PLFRAME_ESUCCESS

\* the call stepped libunwind and libunwind failed, in the step or the reseeding
ProviderError ==
    /\ Stepped
    /\ last.unwr < 0 \/ last.initres # UNW_ESUCCESS

\* number of readable words at or above the watermark
ReadableAbove(m, c) ==
    Cardinality({k \in 0 .. (search_space + 2) :
                    /\ StackBase + k * WordSize >= c.last_stack_pointer
                    /\ plframe_read_addr(m, StackBase + k * WordSize).ok})

\* what the walk has left: words to scan, frames of libunwind, the first frame
WalkRank(m, c, more) ==
    <<ReadableAbove(m, c), more, IF c.nframe = -1 THEN 1 ELSE 0>>

LexLess(a, b) ==
    \/ a[1] < b[1]
    \/ a[1] = b[1] /\ a[2] < b[2]
    \/ a[1] = b[1] /\ a[2] = b[2] /\ a[3] < b[3]

C22_WalkTerminates ==
    /\ <>WalkOver
    /\ [](WalkOver =>
            IF ProviderError
            THEN ~cursor.endstack /\ last.ret # PLFRAME_ENOFRAME
            ELSE EndOfStack /\ last.ret = PLFRAME_ENOFRAME)
    /\ [][(inited /\ AdvancedNext /\ last'.ret = PLFRAME_ESUCCESS) =>
            \/ ~cursor.endstack /\ cursor'.endstack
            \/ LexLess(WalkRank(mem, cursor', unw_more'),
                       WalkRank(mem, cursor, unw_more))]_vars

\* a walk that resynchronised twice, stepped on after it and ended at the end of the stack
C22_Witness ==
    /\ WalkOver
    /\ EndOfStack
    /\ last.ret = PLFRAME_ENOFRAME
    /\ cursor.last_stack_pointer >= ss["RSP"] + 2 * WordSize
    /\ cursor.nframe >= 5


(***************************************************************************)
(* C23                                                                     *)
(***************************************************************************)
\* C23: from every watermark, those included for which the loop bound or the
\* loop increment wraps, one call of the scanner ends after no more reads
\* than the window has words (search_space), and every address it reads is
\* at or above the watermark.
C23_ScanBoundedFromEveryWatermark ==
    Scanned =>
        /\ last.scan.reads <= search_space
        /\ \A k \in 0 .. (last.scan.reads - 1) :
              Wrap(ScanFrom + k * WordSize) >= ScanFrom


(***************************************************************************)
(* C24                                                                     *)
(***************************************************************************)
\* C24: walked side by side over the same answers of libunwind, none of them
\* a 'done' with the program counter of before the step, the current variant
\* and the older libunwind-only variant return the same outcome from every
\* call and step libunwind in the same calls, so both see the same sequence
\* of answers; both return success from the call that sees 'done' and
\* PLFRAME_ENOFRAME from every call after it; the current variant never scans.
TwinEnded == twin.cursor.nframe = -2

C24_VariantsAgree ==
    /\ [](inited =>
            /\ twin.ret = last.ret
            /\ twin.stepped = last.stepped
            /\ twin.unwcrsr = unwcrsr
            /\ TwinEnded <=> cursor.endstack
            /\ ~Scanned)
    /\ [][(inited /\ AdvancedNext) =>
            /\ (SteppedNext /\ last'.unwr = UNW_STEP_END) =>
                  /\ last'.ret = PLFRAME_ESUCCESS
                  /\ twin'.ret = PLFRAME_ESUCCESS
                  /\ cursor'.endstack /\ twin'.cursor.nframe = -2
            /\ (SteppedNext /\ last'.unwr < 0) =>
                  /\ last'.ret = plframe_error_from_unwerror(last'.unwr)
                  /\ twin'.ret = plframe_error_from_unwerror(last'.unwr)
            /\ (SteppedNext /\ last'.unwr > 0) =>
                  /\ last'.ret = PLFRAME_ESUCCESS
                  /\ twin'.ret = PLFRAME_ESUCCESS
            /\ (cursor.endstack \/ TwinEnded) =>
                  /\ last'.ret = PLFRAME_ENOFRAME
                  /\ twin'.ret = PLFRAME_ENOFRAME
                  /\ ~last'.stepped /\ ~twin'.stepped]_vars

\* both variants have returned PLFRAME_ENOFRAME after a walk of several frames
C24_Witness ==
    /\ inited
    /\ Advanced
    /\ last.ret = PLFRAME_ENOFRAME
    /\ twin.ret = PLFRAME_ENOFRAME
    /\ cursor.nframe >= 2
    /\ mem.words > 0


(***************************************************************************)
(* C25                                                                     *)
(***************************************************************************)
\* C25: in the manual frame-pointer variant, after a call that returned
\* PLFRAME_ENOFRAME because the saved frame pointer it read was NULL, the
\* next call returns PLFRAME_ENOFRAME too, and so does every call after it
\* (the stack does not change during a walk); the walk does not start again
\* from the snapshot's frame-pointer register.
ManualEnded ==
    /\ variant = "manual"
    /\ Advanced
    /\ last.ret = PLFRAME_ENOFRAME
    /\ fpcursor.fp[1] = 0

C25_ManualEndIsFinal ==
    [][(ManualEnded /\ AdvancedNext) => last'.ret = PLFRAME_ENOFRAME]_vars

====
